---- MODULE Spec2Model ----
(***************************************************************************)
(* Model of the metadata-cleaning engine of metadata_cleaner.py and of the *)
(* per-file caller sequence of MainWindow._clean_rows in main.py.          *)
(*                                                                         *)
(* A file name is a sequence of tokens whose concatenation is the name     *)
(* ("a" "_cleaned" ".jpg"); tokens that start with a dot are the ones      *)
(* pathlib looks at to find the suffix.  A tag name is a sequence of       *)
(* tokens too ("GPS" "Latitude"), so that startswith and substring tests   *)
(* are computed, not looked up.  The file system maps the names that       *)
(* exist to their content.  The codec, the PDF library and the external    *)
(* tool are collaborators: whether a write succeeds is their choice.       *)
(***************************************************************************)
EXTENDS Integers, Sequences, FiniteSets, TLC

VARIABLES fs, inv, log, defaults

vars == <<fs, inv, log, defaults>>

(* ---------------------------------------------------------------------- *)
(* Bounds                                                                  *)
(* ---------------------------------------------------------------------- *)

\* largest number of tags in an enumerated input tag dictionary
MaxTags == 2

\* largest number of tokens after the first in an enumerated file name
MaxNameTokens == 2

\* the invocations; the sequential specifications run the first one only
Procs == {"p1", "p2"}

Main == "p1"

(* ---------------------------------------------------------------------- *)
(* Paths (pathlib.Path as used by clean_file)                              *)
(* ---------------------------------------------------------------------- *)

DotTokens == {".jpg", ".JPG", ".Jpg", ".jpeg", ".JPEG", ".png", ".PNG", ".tiff",
              ".TIFF", ".tif", ".TIF", ".mp4", ".MP4", ".mov", ".MOV", ".avi",
              ".AVI", ".mkv", ".MKV", ".mp3", ".MP3", ".wav", ".WAV", ".flac",
              ".FLAC", ".pdf", ".PDF", ".Pdf", ".txt", ".TXT", ".tmp_clean"}

IsDot(tok) == tok \in DotTokens

\* str.lower() on one token
LowerTok(tok) ==
  CASE tok \in {".JPG", ".Jpg"} -> ".jpg"
    [] tok = ".JPEG" -> ".jpeg"
    [] tok = ".PNG" -> ".png"
    [] tok = ".TIFF" -> ".tiff"
    [] tok = ".TIF" -> ".tif"
    [] tok = ".MP4" -> ".mp4"
    [] tok = ".MOV" -> ".mov"
    [] tok = ".AVI" -> ".avi"
    [] tok = ".MKV" -> ".mkv"
    [] tok = ".MP3" -> ".mp3"
    [] tok = ".WAV" -> ".wav"
    [] tok = ".FLAC" -> ".flac"
    [] tok \in {".PDF", ".Pdf"} -> ".pdf"
    [] tok = ".TXT" -> ".txt"
    [] OTHER -> tok

Lower(s) == [i \in 1..Len(s) |-> LowerTok(s[i])]

\* index of the token that starts the suffix; 0 when the name has none
\* (a dot that starts the name does not start a suffix)
SuffixStart(name) ==
  LET dots == {i \in 2..Len(name) : IsDot(name[i])}
  IN  IF dots = {} THEN 0 ELSE CHOOSE i \in dots : \A j \in dots : j <= i

\* Path.suffix
Suffix(name) ==
  IF SuffixStart(name) = 0 THEN <<>>
  ELSE SubSeq(name, SuffixStart(name), Len(name))

\* Path.stem
Stem(name) ==
  IF SuffixStart(name) = 0 THEN name
  ELSE SubSeq(name, 1, SuffixStart(name) - 1)

\* Path.with_suffix(s)
WithSuffix(name, s) == Stem(name) \o s

ImageExts == {<<".jpg">>, <<".jpeg">>, <<".png">>, <<".tiff">>, <<".tif">>}

MediaExts == {<<".mp4">>, <<".mov">>, <<".avi">>, <<".mkv">>, <<".mp3">>,
              <<".wav">>, <<".flac">>}

\* get_file_type without the .lower()
get_file_type_NoLower(name) ==
  LET ext == Suffix(name)
  IN  IF ext \in ImageExts THEN "image"
      ELSE IF ext \in MediaExts THEN "media"
      ELSE IF ext = <<".pdf">> THEN "pdf"
      ELSE "other"

\* get_file_type with "media" as the fall-through class
get_file_type_OtherAsMedia(name) ==
  LET ext == Lower(Suffix(name))
  IN  IF ext \in ImageExts THEN "image"
      ELSE IF ext = <<".pdf">> THEN "pdf"
      ELSE "media"

get_file_type(name) ==
  LET ext == Lower(Suffix(name))
  IN  IF ext \in ImageExts THEN "image"
      ELSE IF ext \in MediaExts THEN "media"
      ELSE IF ext = <<".pdf">> THEN "pdf"
      ELSE "other"

\* the temp suffix of overwrite mode
TmpSuffix(lossless) ==
  IF lossless THEN <<".tmp_clean", "_lossless">> ELSE <<".tmp_clean">>

\* the name suffix of copy mode
CleanedSuffix(lossless) ==
  IF lossless THEN <<"_cleaned", "_lossless">> ELSE <<"_cleaned">>

\* dst with overwrite mode writing straight onto the source
DstPath_InPlace(src, overwrite, lossless) ==
  IF overwrite
  THEN src
  ELSE Stem(src) \o CleanedSuffix(lossless) \o Suffix(src)

\* dst with copy mode dropping the extension
DstPath_NoExt(src, overwrite, lossless) ==
  IF overwrite
  THEN WithSuffix(src, Suffix(src) \o TmpSuffix(lossless))
  ELSE Stem(src) \o CleanedSuffix(lossless)

\* dst of clean_file
DstPath(src, overwrite, lossless) ==
  IF overwrite
  THEN WithSuffix(src, Suffix(src) \o TmpSuffix(lossless))
  ELSE Stem(src) \o CleanedSuffix(lossless) \o Suffix(src)

(* ---------------------------------------------------------------------- *)
(* Rules                                                                   *)
(* ---------------------------------------------------------------------- *)

RuleKeys == {"remove_gps", "remove_timestamps", "remove_camera", "remove_xmp",
             "remove_iptc", "keep_icc", "keep_orientation"}

DEFAULT_RULES == [k \in RuleKeys |-> TRUE]

\* the rules argument: None, or a dictionary over some of the keys
NoRules == [given |-> FALSE, dict |-> [k \in {} |-> TRUE]]

Rules(dict) == [given |-> TRUE, dict |-> dict]

\* merged = DEFAULT_RULES.copy(); merged.update(rules): the keys of the
\* module's dictionary and of the caller's, the caller's values winning
\* _normalize_rules handing a caller's dictionary back as it came
_normalize_rules_NoMerge(rules) ==
  IF ~rules.given THEN defaults ELSE rules.dict

_normalize_rules(rules) ==
  IF ~rules.given THEN defaults
  ELSE [k \in DOMAIN defaults \cup DOMAIN rules.dict |->
          IF k \in DOMAIN rules.dict THEN rules.dict[k] ELSE defaults[k]]

\* the complete rule sets (what the settings dialog produces)
CompleteRules == {Rules(d) : d \in [RuleKeys -> BOOLEAN]}

(* ---------------------------------------------------------------------- *)
(* Tags and file content                                                   *)
(* ---------------------------------------------------------------------- *)

GPSLatitude == <<"GPS", "Latitude">>
Make == <<"Make">>
Orientation == <<"Orientation">>
DateTimeOriginal == <<"DateTime", "Original">>
XResolution == <<"XResolution">>
ICCProfile == <<"ICCProfile">>
XMPToolkit == <<"XMP", "Toolkit">>
IPTCNAA == <<"IPTC", "NAA">>
Software == <<"Software">>

TagNames == {GPSLatitude, Make, Orientation, DateTimeOriginal, XResolution,
             ICCProfile, XMPToolkit, IPTCNAA, Software}

TIMESTAMP_TAGS == {<<"DateTime">>, DateTimeOriginal, <<"CreateDate">>}

CAMERA_TAGS == {Make, <<"Model">>, <<"LensModel">>, <<"LensMake">>}

\* str.startswith / substring test on the token form of a name
StartsWith(name, tok) == Len(name) > 0 /\ name[1] = tok

Contains(name, tok) == \E i \in 1..Len(name) : name[i] = tok

EmptyMap == [t \in {} |-> "x"]

\* the value a tag carries in the enumerated inputs
TagValue(t) ==
  CASE t = GPSLatitude -> "12.3"
    [] t = Make -> "Acme"
    [] t = Orientation -> "1"
    [] t = DateTimeOriginal -> "2020:01:01"
    [] OTHER -> "v"

\* the scenario input of the testable properties
ScenarioTags ==
  [t \in {GPSLatitude, Make, Orientation, DateTimeOriginal} |-> TagValue(t)]

\* tag dictionaries with at most n entries
TagDicts(n) ==
  {[t \in S |-> TagValue(t)] : S \in {S \in SUBSET TagNames : Cardinality(S) <= n}}

\* content of a file: its container format, whether the container parses,
\* its metadata dictionary and the data the metadata is attached to
File(cls, meta, body) == [cls |-> cls, valid |-> TRUE, meta |-> meta, body |-> body]

\* bytes that no decoder accepts (a partial write, a foreign file)
Junk == [cls |-> "none", valid |-> FALSE, meta |-> EmptyMap, body |-> "junk"]

Exists(f, path) == path \in DOMAIN f

\* write content at path (create or overwrite)
Put(f, path, content) ==
  [q \in DOMAIN f \cup {path} |-> IF q = path THEN content ELSE f[q]]

\* the file can be opened by the decoder of class cls
Readable(f, path, cls) == Exists(f, path) /\ f[path].valid /\ f[path].cls = cls

(* ---------------------------------------------------------------------- *)
(* Metadata extraction and diff                                            *)
(* ---------------------------------------------------------------------- *)

\* extract_image_metadata / extract_pdf_metadata / extract_media_metadata
\* raise inside their try block exactly when the container cannot be read
ExtractFails(f, path, file_type) ==
  file_type \in {"image", "pdf", "media"} /\ ~Readable(f, path, file_type)

extract_metadata(f, path, file_type) ==
  IF file_type \in {"image", "pdf", "media"} /\ Readable(f, path, file_type)
  THEN f[path].meta
  ELSE EmptyMap

\* the loop of compare_metadata over the keys not yet visited
RECURSIVE CompareLoop(_, _, _, _)
CompareLoop(before, after, todo, removed) ==
  IF todo = {} THEN removed
  ELSE LET key == CHOOSE k \in todo : TRUE
           value == before[key]
           hit == IF key \notin DOMAIN after THEN TRUE
                  ELSE after[key] # value
           next == IF hit
                   THEN [k \in DOMAIN removed \cup {key} |->
                           IF k = key THEN value ELSE removed[k]]
                   ELSE removed
       IN  CompareLoop(before, after, todo \ {key}, next)

\* compare_metadata without its elif branch
compare_metadata_AbsentOnly(before, after) ==
  [k \in {k \in DOMAIN before : k \notin DOMAIN after} |-> before[k]]

compare_metadata(before, after) ==
  CompareLoop(before, after, DOMAIN before, EmptyMap)

(* ---------------------------------------------------------------------- *)
(* The cleaners' outputs                                                   *)
(* ---------------------------------------------------------------------- *)

\* keep_always without the keep_orientation branch
keep_always_NoOrientation(rules) ==
  {XResolution, <<"YResolution">>, <<"ResolutionUnit">>}
    \cup (IF rules["keep_icc"] THEN {ICCProfile} ELSE {})

keep_always(rules) ==
  {XResolution, <<"YResolution">>, <<"ResolutionUnit">>}
    \cup (IF rules["keep_orientation"] THEN {Orientation} ELSE {})
    \cup (IF rules["keep_icc"] THEN {ICCProfile} ELSE {})

\* the loop body with the GPS branch continuing without the append
ShouldDelete_GpsSkipped(tag_name, rules) ==
  IF tag_name \in keep_always(rules) THEN FALSE
  ELSE IF rules["remove_gps"] /\ StartsWith(tag_name, "GPS") THEN FALSE
  ELSE TRUE

\* the loop body without the final append for unrecognised tags
ShouldDelete_NoCatchAll(tag_name, rules) ==
  IF tag_name \in keep_always(rules) THEN FALSE
  ELSE IF rules["remove_gps"] /\ StartsWith(tag_name, "GPS") THEN TRUE
  ELSE IF rules["remove_timestamps"] /\ tag_name \in TIMESTAMP_TAGS THEN TRUE
  ELSE IF rules["remove_camera"] /\ tag_name \in CAMERA_TAGS THEN TRUE
  ELSE IF rules["remove_xmp"] /\ Contains(tag_name, "XMP") THEN TRUE
  ELSE IF rules["remove_iptc"] /\ Contains(tag_name, "IPTC") THEN TRUE
  ELSE FALSE

\* the body of the loop of clean_image_lossless: TRUE when the tag's key is
\* appended to keys_to_delete
ShouldDelete(tag_name, rules) ==
  IF tag_name \in keep_always(rules) THEN FALSE
  ELSE IF rules["remove_gps"] /\ StartsWith(tag_name, "GPS") THEN TRUE
  ELSE IF rules["remove_timestamps"] /\ tag_name \in TIMESTAMP_TAGS THEN TRUE
  ELSE IF rules["remove_camera"] /\ tag_name \in CAMERA_TAGS THEN TRUE
  ELSE IF rules["remove_xmp"] /\ Contains(tag_name, "XMP") THEN TRUE
  ELSE IF rules["remove_iptc"] /\ Contains(tag_name, "IPTC") THEN TRUE
  ELSE TRUE

\* exif after "for k in keys_to_delete: del exif[k]"
FilterExif(exif, rules) ==
  [t \in {t \in DOMAIN exif : ~ShouldDelete(t, rules)} |-> exif[t]]

\* what clean_image_lossless saves: the pixel data and the surviving tags
ImageLosslessOutput(content, rules) ==
  File("image", FilterExif(content.meta, _normalize_rules(rules)), content.body)

\* clean_image_full saving with the source's exif
ImageFullOutput_KeepsExif(content) == File("image", content.meta, content.body)

\* what clean_image_full saves: the pixel data, no exif argument
ImageFullOutput(content) == File("image", EmptyMap, content.body)

\* a save that leaves the document-info dictionary as it was
PdfOutput_KeepsInfo(content) == File("pdf", content.meta, content.body)

\* what clean_pdf_lossless and clean_pdf_full save: docinfo cleared
PdfOutput(content) == File("pdf", EmptyMap, content.body)

\* the directives with the camera fields appended last
MediaLosslessDirectives_CameraLast(rules) ==
  (IF rules["remove_gps"] THEN <<"-GPS*=">> ELSE <<>>)
    \o (IF rules["remove_timestamps"] THEN <<"-AllDates=">> ELSE <<>>)
    \o (IF rules["remove_xmp"] THEN <<"-XMP:all=">> ELSE <<>>)
    \o (IF rules["remove_iptc"] THEN <<"-IPTC:all=">> ELSE <<>>)
    \o (IF rules["remove_camera"] THEN <<"-Make=", "-Model=", "-Lens*=">> ELSE <<>>)

\* the erasure directives of clean_media_lossless, in the order appended
MediaLosslessDirectives(rules) ==
  (IF rules["remove_gps"] THEN <<"-GPS*=">> ELSE <<>>)
    \o (IF rules["remove_timestamps"] THEN <<"-AllDates=">> ELSE <<>>)
    \o (IF rules["remove_camera"] THEN <<"-Make=", "-Model=", "-Lens*=">> ELSE <<>>)
    \o (IF rules["remove_xmp"] THEN <<"-XMP:all=">> ELSE <<>>)
    \o (IF rules["remove_iptc"] THEN <<"-IPTC:all=">> ELSE <<>>)

\* cmd of clean_media_lossless: options, then -o dst, then src
MediaLosslessCmd(src, dst, rules) ==
  [opts |-> <<"-P">> \o MediaLosslessDirectives(_normalize_rules(rules)),
   o |-> dst, file |-> src]

\* cmd of clean_media_full
MediaFullCmd(src, dst) == [opts |-> <<"-all=">>, o |-> dst, file |-> src]

NoCmd == [opts |-> <<>>, o |-> <<>>, file |-> <<>>]

\* one run of the external tool: whether subprocess.run could start it,
\* and then its exit code and what it wrote to stderr
ExitCodes == {0, 1, 2}

StderrTexts == {"", "tool error text"}

NoTool == [launched |-> FALSE, returncode |-> 0, stderr |-> ""]

ToolRuns == [launched : {TRUE}, returncode : ExitCodes, stderr : StderrTexts]

\* the return with every exit code taken as success
ToolReturn_AnyCodeOk(tool, okMsg) ==
  IF ~tool.launched THEN <<FALSE, "cannot launch tool">>
  ELSE <<TRUE, okMsg>>

\* the return of clean_media_lossless / clean_media_full as <<ok, message>>:
\* returncode 0 is success, another code gives stderr or "ExifTool error",
\* an exception of subprocess.run gives str(e)
ToolReturn(tool, okMsg) ==
  IF ~tool.launched THEN <<FALSE, "cannot launch tool">>
  ELSE IF tool.returncode = 0 THEN <<TRUE, okMsg>>
  ELSE <<FALSE, IF tool.stderr # "" THEN tool.stderr ELSE "ExifTool error">>

\* the tags one directive of the external tool erases
Erases(opt, t) ==
  CASE opt = "-all=" -> TRUE
    [] opt = "-GPS*=" -> StartsWith(t, "GPS")
    [] opt = "-AllDates=" -> t \in {DateTimeOriginal, <<"CreateDate">>, <<"ModifyDate">>}
    [] opt = "-Make=" -> t = Make
    [] opt = "-Model=" -> t = <<"Model">>
    [] opt = "-Lens*=" -> StartsWith(t, "Lens")
    [] opt = "-XMP:all=" -> StartsWith(t, "XMP")
    [] opt = "-IPTC:all=" -> StartsWith(t, "IPTC")
    [] OTHER -> FALSE

\* what the external tool writes to cmd.o when it exits with code 0
MediaOutput(content, cmd) ==
  File("media",
       [t \in {t \in DOMAIN content.meta :
                 ~\E i \in 1..Len(cmd.opts) : Erases(cmd.opts[i], t)} |->
          content.meta[t]],
       content.body)

(* ---------------------------------------------------------------------- *)
(* State                                                                   *)
(* ---------------------------------------------------------------------- *)

\* fs  : the files that exist, name -> content
\* defaults : the module-level dictionary DEFAULT_RULES
\* inv : per invocation, the position, the arguments and the locals of
\*       _clean_rows and clean_file; fs0 records the file system at the call
\* log : the buffer of logger.log

NoResult == [success |-> FALSE, message |-> "", outputPath |-> <<>>]

Result(ok, msg, path) == [success |-> ok, message |-> msg, outputPath |-> path]

Idle ==
  [pc |-> "idle", path |-> <<>>, overwrite |-> FALSE, lossless |-> FALSE,
   rules |-> NoRules, file_type |-> "other", dst |-> <<>>, ok |-> FALSE,
   msg |-> "", cmd |-> NoCmd, result |-> NoResult, before |-> EmptyMap,
   after |-> EmptyMap, removed |-> EmptyMap, fs0 |-> EmptyMap,
   nrules |-> DEFAULT_RULES, tool |-> NoTool]

\* logger.log
Log(l, kind, path) == Append(l, <<kind, path>>)

(* ---------------------------------------------------------------------- *)
(* The files of the initial states                                         *)
(* ---------------------------------------------------------------------- *)

SrcImage == <<"a", ".jpg">>
SrcPdf == <<"b", ".PDF">>
SrcMedia == <<"c", ".mp4">>
SrcOther == <<"d", ".txt">>
SrcMissing == <<"e", ".jpg">>

Sources == {SrcImage, SrcPdf, SrcMedia, SrcOther, SrcMissing}

\* the names clean_file can derive from a source
Derived(src) == {DstPath(src, o, l) : o \in BOOLEAN, l \in BOOLEAN}

PdfInfo == [t \in {<<"Title">>, <<"Author">>} |-> "v"]

MediaTags == [t \in {GPSLatitude, Make, Software} |-> TagValue(t)]

\* a file system holding the four existing sources; leftovers is the set of
\* names at which earlier runs left unreadable files behind
BaseFs(image, leftovers) ==
  [q \in {SrcImage, SrcPdf, SrcMedia, SrcOther} \cup leftovers |->
     CASE q = SrcImage -> image
       [] q = SrcPdf -> File("pdf", PdfInfo, "pages")
       [] q = SrcMedia -> File("media", MediaTags, "stream")
       [] q = SrcOther -> File("text", EmptyMap, "text")
       [] OTHER -> Junk]

AllDerived == UNION {Derived(src) : src \in Sources}

(* ---------------------------------------------------------------------- *)
(* _clean_rows, up to the call of clean_file                               *)
(* ---------------------------------------------------------------------- *)

\* one row of _clean_rows: before = extract_metadata(path, file_type), then
\* clean_file is entered with the window's settings
CallerExtractBefore(p, paths, ruleSets) ==
  /\ inv[p].pc = "idle"
  /\ \E path \in paths, overwrite \in BOOLEAN, lossless \in BOOLEAN,
        rules \in ruleSets :
       LET file_type == get_file_type(path)
       IN  /\ inv' = [inv EXCEPT ![p] =
                        [Idle EXCEPT !.pc = "entered", !.path = path,
                                     !.overwrite = overwrite,
                                     !.lossless = lossless, !.rules = rules,
                                     !.file_type = file_type,
                                     !.before = extract_metadata(fs, path, file_type),
                                     !.fs0 = fs]]
           /\ log' = IF ExtractFails(fs, path, file_type)
                     THEN Log(log, "Error extracting metadata", path)
                     ELSE log
  /\ UNCHANGED <<fs, defaults>>

(* ---------------------------------------------------------------------- *)
(* clean_file                                                              *)
(* ---------------------------------------------------------------------- *)

\* "if not src.exists()": log and return
NotFound(p) ==
  /\ inv[p].pc = "entered"
  /\ ~Exists(fs, inv[p].path)
  /\ inv' = [inv EXCEPT ![p].pc = "returned",
                        ![p].result = Result(FALSE, "File not found", inv[p].path)]
  /\ log' = Log(log, "File not found", inv[p].path)
  /\ UNCHANGED <<fs, defaults>>

\* the else branches of the dispatch: dst is computed, nothing is written
Unsupported(p) ==
  /\ inv[p].pc = "entered"
  /\ Exists(fs, inv[p].path)
  /\ get_file_type(inv[p].path) = "other"
  /\ inv' = [inv EXCEPT ![p].pc = "returned",
                        ![p].dst = DstPath(inv[p].path, inv[p].overwrite, inv[p].lossless),
                        ![p].result = Result(FALSE, "Unsupported file type", inv[p].path)]
  /\ log' = Log(Log(log, "Starting clean", inv[p].path),
                "Unsupported file type", inv[p].path)
  /\ UNCHANGED <<fs, defaults>>

\* a cleaner built on a library (Pillow, pikepdf): open src, build the
\* output, save it to dst; any exception becomes (False, str(e)).  A failed
\* save may or may not leave a partial file at dst.
LibraryClean(p, cls, okMsg, output) ==
  LET src == inv[p].path
      dst == DstPath(src, inv[p].overwrite, inv[p].lossless)
      done(ok, msg) == [inv EXCEPT ![p].pc = "cleaned", ![p].dst = dst,
                                   ![p].ok = ok, ![p].msg = msg]
  IN  /\ log' = Log(log, "Starting clean", src)
      /\ UNCHANGED defaults
      /\ \/ /\ Readable(fs, src, cls)
            /\ fs' = Put(fs, dst, output)
            /\ inv' = done(TRUE, okMsg)
         \/ /\ ~Readable(fs, src, cls)
            /\ fs' = fs
            /\ inv' = done(FALSE, "cannot read source")
         \/ /\ Readable(fs, src, cls)
            /\ \E partial \in BOOLEAN :
                 fs' = IF partial THEN Put(fs, dst, Junk) ELSE fs
            /\ inv' = done(FALSE, "cannot write output")

\* a cleaner built on the external tool: run cmd and return by ToolReturn.
\* The tool exits with 0 only after writing the output; with another code
\* it may or may not have left a partial file at dst.
ToolClean(p, cmd, okMsg) ==
  LET src == inv[p].path
      dst == cmd.o
      done(tool) == [inv EXCEPT ![p].pc = "cleaned", ![p].dst = dst,
                                ![p].cmd = cmd, ![p].tool = tool,
                                ![p].ok = ToolReturn(tool, okMsg)[1],
                                ![p].msg = ToolReturn(tool, okMsg)[2]]
  IN  /\ log' = Log(log, "Starting clean", src)
      /\ UNCHANGED defaults
      /\ \/ \E tool \in ToolRuns :
               /\ tool.returncode = 0
               /\ Readable(fs, src, "media")
               /\ fs' = Put(fs, dst, MediaOutput(fs[src], cmd))
               /\ inv' = done(tool)
         \/ \E tool \in ToolRuns, partial \in BOOLEAN :
               /\ tool.returncode # 0
               /\ fs' = IF partial THEN Put(fs, dst, Junk) ELSE fs
               /\ inv' = done(tool)
         \/ /\ fs' = fs
            /\ inv' = done(NoTool)

Dispatch(p, lossless, file_type) ==
  /\ inv[p].pc = "entered"
  /\ Exists(fs, inv[p].path)
  /\ inv[p].lossless = lossless
  /\ get_file_type(inv[p].path) = file_type

clean_image_lossless(p) ==
  /\ Dispatch(p, TRUE, "image")
  /\ LibraryClean(p, "image", "Lossless image metadata removed",
                  ImageLosslessOutput(fs[inv[p].path], Rules(_normalize_rules(inv[p].rules))))

clean_pdf_lossless(p) ==
  /\ Dispatch(p, TRUE, "pdf")
  /\ LibraryClean(p, "pdf", "Lossless PDF metadata removed", PdfOutput(fs[inv[p].path]))

clean_media_lossless(p) ==
  /\ Dispatch(p, TRUE, "media")
  /\ ToolClean(p, MediaLosslessCmd(inv[p].path,
                                   DstPath(inv[p].path, inv[p].overwrite, TRUE),
                                   Rules(_normalize_rules(inv[p].rules))),
               "Lossless media metadata removed")

clean_image_full(p) ==
  /\ Dispatch(p, FALSE, "image")
  /\ LibraryClean(p, "image", "Image metadata removed", ImageFullOutput(fs[inv[p].path]))

clean_pdf_full(p) ==
  /\ Dispatch(p, FALSE, "pdf")
  /\ LibraryClean(p, "pdf", "PDF metadata removed", PdfOutput(fs[inv[p].path]))

clean_media_full(p) ==
  /\ Dispatch(p, FALSE, "media")
  /\ ToolClean(p, MediaFullCmd(inv[p].path, DstPath(inv[p].path, inv[p].overwrite, FALSE)),
               "Media metadata removed")

\* a copy of dst onto src that leaves dst in place
Replaced_Copy(f, dst, src) ==
  [q \in DOMAIN f \cup {src} |-> IF q = src THEN f[dst] ELSE f[q]]

\* the file system after dst.replace(src)
Replaced(f, dst, src) ==
  [q \in (DOMAIN f \ {dst}) \cup {src} |-> IF q = src THEN f[dst] ELSE f[q]]

\* "if ok and overwrite": the replace succeeds
ReplaceOk(p) ==
  /\ inv[p].pc = "cleaned"
  /\ inv[p].ok /\ inv[p].overwrite
  /\ Exists(fs, inv[p].dst)
  /\ fs' = Replaced(fs, inv[p].dst, inv[p].path)
  /\ log' = Log(log, "Clean successful (overwritten)", inv[p].path)
  /\ UNCHANGED defaults
  /\ inv' = [inv EXCEPT ![p].pc = "returned",
                        ![p].result = Result(TRUE, inv[p].msg, inv[p].path)]

\* "if ok and overwrite": dst.replace(src) raises OSError; nothing catches it
ReplaceFail(p) ==
  /\ inv[p].pc = "cleaned"
  /\ inv[p].ok /\ inv[p].overwrite
  /\ inv' = [inv EXCEPT ![p].pc = "raised"]
  /\ UNCHANGED <<fs, log, defaults>>

\* the final "return ok, msg, str(dst)"
ReturnDst(p) ==
  /\ inv[p].pc = "cleaned"
  /\ ~(inv[p].ok /\ inv[p].overwrite)
  /\ log' = IF inv[p].ok THEN Log(log, "Clean successful", inv[p].dst)
            ELSE Log(log, "Clean failed", inv[p].path)
  /\ inv' = [inv EXCEPT ![p].pc = "returned",
                        ![p].result = Result(inv[p].ok, inv[p].msg, inv[p].dst)]
  /\ UNCHANGED <<fs, defaults>>

(* ---------------------------------------------------------------------- *)
(* _clean_rows, after clean_file has returned                              *)
(* ---------------------------------------------------------------------- *)

\* _clean_rows reading "after" from the source path, not from out_path
CallerReport_AfterFromSource(p) ==
  /\ inv[p].pc = "returned"
  /\ LET r == inv[p].result
         after == IF r.success
                  THEN extract_metadata(fs, inv[p].path, inv[p].file_type)
                  ELSE EmptyMap
         removed == IF r.success THEN compare_metadata(inv[p].before, after)
                    ELSE EmptyMap
     IN  /\ inv' = [inv EXCEPT ![p].pc = "reported", ![p].after = after,
                               ![p].removed = removed]
         /\ log' = log
  /\ UNCHANGED <<fs, defaults>>

CallerReport(p) ==
  /\ inv[p].pc = "returned"
  /\ LET r == inv[p].result
         after == IF r.success
                  THEN extract_metadata(fs, r.outputPath, inv[p].file_type)
                  ELSE EmptyMap
         removed == IF r.success THEN compare_metadata(inv[p].before, after)
                    ELSE EmptyMap
     IN  /\ inv' = [inv EXCEPT ![p].pc = "reported", ![p].after = after,
                               ![p].removed = removed]
         /\ log' = IF r.success /\ ExtractFails(fs, r.outputPath, inv[p].file_type)
                   THEN Log(log, "Error extracting metadata", r.outputPath)
                   ELSE log
  /\ UNCHANGED <<fs, defaults>>

(* ---------------------------------------------------------------------- *)
(* Specifications                                                          *)
(* ---------------------------------------------------------------------- *)

NoInvocation == [p \in Procs |-> Idle]

\* the rule sets a caller passes: the complete ones and None
CallerRules == CompleteRules \cup {NoRules}

\* Spec: one invocation on any of the sources, every rule set; the image
\* is the scenario image or unreadable, and leftovers of earlier runs may
\* sit at every name the invocation can derive
Init ==
  /\ \E image \in {File("image", ScenarioTags, "pixels"), Junk},
        leftovers \in {{}, AllDerived} :
       fs = BaseFs(image, leftovers)
  /\ inv = NoInvocation
  /\ log = <<>>
  /\ defaults = DEFAULT_RULES

Call == CallerExtractBefore(Main, Sources, CallerRules)

Next ==
  \/ Call
  \/ NotFound(Main)
  \/ Unsupported(Main)
  \/ clean_image_lossless(Main)
  \/ clean_pdf_lossless(Main)
  \/ clean_media_lossless(Main)
  \/ clean_image_full(Main)
  \/ clean_pdf_full(Main)
  \/ clean_media_full(Main)
  \/ ReplaceOk(Main)
  \/ ReplaceFail(Main)
  \/ ReturnDst(Main)
  \/ CallerReport(Main)

Spec == Init /\ [][Next]_vars

\* SpecImage: one invocation on the image, every rule set, every tag
\* dictionary of at most MaxTags tags (Orientation with either value), the
\* scenario dictionary, and an unreadable image
OrientationValues == {"1", "6"}

ImageInputs ==
  {File("image", d, "pixels") : d \in TagDicts(MaxTags) \cup {ScenarioTags}}
    \cup {File("image", [d EXCEPT ![Orientation] = v], "pixels") :
            d \in {d \in TagDicts(MaxTags) \cup {ScenarioTags} : Orientation \in DOMAIN d},
            v \in OrientationValues}
    \cup {Junk}

InitImage ==
  /\ \E image \in ImageInputs : fs = BaseFs(image, {})
  /\ inv = NoInvocation
  /\ log = <<>>
  /\ defaults = DEFAULT_RULES

CallImage == CallerExtractBefore(Main, {SrcImage}, CallerRules)

NextImage ==
  \/ CallImage
  \/ clean_image_lossless(Main)
  \/ clean_image_full(Main)
  \/ ReplaceOk(Main)
  \/ ReplaceFail(Main)
  \/ ReturnDst(Main)
  \/ CallerReport(Main)

SpecImage == InitImage /\ [][NextImage]_vars

\* SpecCompare: compare_metadata applied to every pair of dictionaries over
\* DiffKeys with values in DiffValues
DiffKeys == {Make, Orientation, Software}

DiffValues == {"1", "2"}

DiffDicts == UNION {[S -> DiffValues] : S \in SUBSET DiffKeys}

InitCompare ==
  /\ fs = EmptyMap
  /\ log = <<>>
  /\ defaults = DEFAULT_RULES
  /\ \E before \in DiffDicts, after \in DiffDicts :
       inv = [NoInvocation EXCEPT ![Main] =
                [Idle EXCEPT !.pc = "compare", !.before = before, !.after = after]]

Compare ==
  /\ inv[Main].pc = "compare"
  /\ inv' = [inv EXCEPT ![Main].pc = "compared",
                        ![Main].removed = compare_metadata(inv[Main].before, inv[Main].after)]
  /\ UNCHANGED <<fs, log, defaults>>

NextCompare == Compare

SpecCompare == InitCompare /\ [][NextCompare]_vars

(* ---------------------------------------------------------------------- *)
(* Properties of clean_file                                                *)
(* ---------------------------------------------------------------------- *)

\* clean_file has handed its tuple back to the caller
Returned(p) == inv[p].pc \in {"returned", "reported"}

\* the name q is the same file, or the same absence, in f and g
Same(f, g, q) ==
  /\ (q \in DOMAIN f) = (q \in DOMAIN g)
  /\ q \in DOMAIN f => f[q] = g[q]

\* the class of a name, spelled out from the extension lists
ExtClass(name) ==
  LET ext == Lower(Suffix(name))
  IN  CASE ext \in {<<".jpg">>, <<".jpeg">>, <<".png">>, <<".tiff">>, <<".tif">>} -> "image"
        [] ext \in {<<".mp4">>, <<".mov">>, <<".avi">>, <<".mkv">>, <<".mp3">>,
                    <<".wav">>, <<".flac">>} -> "media"
        [] ext = <<".pdf">> -> "pdf"
        [] OTHER -> "other"

\* the sibling name of copy mode: <stem>_cleaned<ext> or <stem>_cleaned_lossless<ext>
Sibling(name, lossless) ==
  Stem(name) \o (IF lossless THEN <<"_cleaned", "_lossless">> ELSE <<"_cleaned">>)
             \o Suffix(name)

\* the temp names of overwrite mode: <name>.tmp_clean and <name>.tmp_clean_lossless
TempName(name, lossless) ==
  name \o (IF lossless THEN <<".tmp_clean", "_lossless">> ELSE <<".tmp_clean">>)

\* the content the call writes in copy mode when its cleaner succeeds
WouldBeOutput(p) ==
  LET src == inv[p].path
      content == inv[p].fs0[src]
      rules == Rules(_normalize_rules(inv[p].rules))
      cls == ExtClass(src)
  IN  CASE cls = "image" /\ inv[p].lossless -> ImageLosslessOutput(content, rules)
        [] cls = "image" /\ ~inv[p].lossless -> ImageFullOutput(content)
        [] cls = "pdf" -> PdfOutput(content)
        [] cls = "media" /\ inv[p].lossless ->
             MediaOutput(content, MediaLosslessCmd(src, Sibling(src, TRUE), rules))
        [] cls = "media" /\ ~inv[p].lossless ->
             MediaOutput(content, MediaFullCmd(src, Sibling(src, FALSE)))

\* C1: every call of clean_file ends by returning its tuple; no failure,
\* a failing replace of the source by the temp file included, leaves the
\* call as an uncaught exception.
C1_NeverRaises == \A p \in Procs : inv[p].pc # "raised"

\* C2: when clean_file returns success = false, in either placement mode,
\* the source path holds exactly what it held at the call (or is still
\* absent) and no replace of the source was logged.
C2_FailureLeavesSource ==
  \A p \in Procs :
    Returned(p) /\ ~inv[p].result.success =>
      /\ Same(fs, inv[p].fs0, inv[p].path)
      /\ \A i \in 1..Len(log) : log[i][1] # "Clean successful (overwritten)"

\* a failed overwrite-mode clean that left a partial temp file behind
C2_Witness ==
  \E p \in Procs :
    /\ Returned(p) /\ ~inv[p].result.success /\ inv[p].overwrite
    /\ inv[p].msg = "cannot write output"
    /\ Exists(fs, inv[p].dst) /\ ~Exists(inv[p].fs0, inv[p].dst)

C4_UnsupportedUntouched ==
  \A p \in Procs :
    Returned(p) /\ Exists(inv[p].fs0, inv[p].path) /\ ExtClass(inv[p].path) = "other" =>
      /\ inv[p].result = Result(FALSE, "Unsupported file type", inv[p].path)
      /\ fs = inv[p].fs0

\* the unsupported file was cleaned in lossless overwrite mode
C4_Witness ==
  \E p \in Procs :
    /\ Returned(p) /\ inv[p].path = SrcOther
    /\ inv[p].lossless /\ inv[p].overwrite
    /\ inv[p].result.message = "Unsupported file type"

Flag(p, k) ==
  IF inv[p].rules.given /\ k \in DOMAIN inv[p].rules.dict
  THEN inv[p].rules.dict[k]
  ELSE TRUE

\* the source's tag dictionary at the call, and the output's on return
InputTags(p) == inv[p].fs0[inv[p].path].meta

OutputTags(p) == fs[inv[p].result.outputPath].meta

ImageCleaned(p, lossless) ==
  /\ Returned(p) /\ inv[p].result.success
  /\ inv[p].lossless = lossless
  /\ ExtClass(inv[p].path) = "image"

Restrict(d, S) == [t \in DOMAIN d \cap S |-> d[t]]

\* C6: after a successful lossless clean of an image with removeGps true,
\* whatever the input tags and the other six flags, no tag of the output
\* has a name that starts with GPS.
C6_NoGpsTagLeft ==
  \A p \in Procs :
    ImageCleaned(p, TRUE) /\ Flag(p, "remove_gps") =>
      \A t \in DOMAIN OutputTags(p) : ~(Len(t) > 0 /\ t[1] = "GPS")

\* a GPS tag went in, removeGps was the only flag set
C6_Witness ==
  \E p \in Procs :
    /\ ImageCleaned(p, TRUE) /\ Flag(p, "remove_gps")
    /\ \A k \in RuleKeys \ {"remove_gps"} : ~Flag(p, k)
    /\ GPSLatitude \in DOMAIN InputTags(p)

\* C7: for an image that carries Orientation and DateTimeOriginal, a
\* lossless clean with keepOrientation and removeTimestamps true keeps
\* Orientation with its value and drops DateTimeOriginal.
C7_OrientationKeptTimestampGone ==
  \A p \in Procs :
    /\ ImageCleaned(p, TRUE)
    /\ Flag(p, "keep_orientation") /\ Flag(p, "remove_timestamps")
    /\ {Orientation, DateTimeOriginal} \subseteq DOMAIN InputTags(p)
    => /\ Orientation \in DOMAIN OutputTags(p)
       /\ OutputTags(p)[Orientation] = InputTags(p)[Orientation]
       /\ DateTimeOriginal \notin DOMAIN OutputTags(p)

\* only the two tags went in, Orientation with the value 6
C7_Witness ==
  \E p \in Procs :
    /\ ImageCleaned(p, TRUE)
    /\ Flag(p, "keep_orientation") /\ Flag(p, "remove_timestamps")
    /\ ~Flag(p, "remove_gps") /\ ~Flag(p, "keep_icc")
    /\ DOMAIN InputTags(p) = {Orientation, DateTimeOriginal}
    /\ InputTags(p)[Orientation] = "6"

\* C8: a successful full clean of an image gives an output with an empty
\* tag dictionary, whatever the input tags and the rules.
C8_FullCleanEmptiesTags ==
  \A p \in Procs :
    ImageCleaned(p, FALSE) => DOMAIN OutputTags(p) = {}

\* the scenario image, all remove flags false and both keep flags true
C8_Witness ==
  \E p \in Procs :
    /\ ImageCleaned(p, FALSE)
    /\ InputTags(p) = ScenarioTags
    /\ \A k \in RuleKeys :
         Flag(p, k) = (k \in {"keep_icc", "keep_orientation"})

\* the always-keep set under the default rules
DefaultKept ==
  {<<"XResolution">>, <<"YResolution">>, <<"ResolutionUnit">>,
   <<"Orientation">>, <<"ICCProfile">>}

\* C9: for the caller sequence extract(before), clean_file, extract(after),
\* compare_metadata on an image with lossless true and the default rules,
\* in copy and in overwrite mode: before is the input dictionary, the
\* output dictionary (and after) is the input restricted to the always-keep
\* set, and the diff is every other input tag with its before value.
C9_DefaultLosslessDiff ==
  \A p \in Procs :
    /\ inv[p].pc = "reported"
    /\ ImageCleaned(p, TRUE)
    /\ \A k \in RuleKeys : Flag(p, k)
    => /\ inv[p].before = InputTags(p)
       /\ OutputTags(p) = Restrict(InputTags(p), DefaultKept)
       /\ inv[p].after = OutputTags(p)
       /\ inv[p].removed = Restrict(InputTags(p), DOMAIN InputTags(p) \ DefaultKept)

\* the scenario in overwrite mode: Orientation is left, three tags reported
C9_Witness ==
  \E p \in Procs :
    /\ inv[p].pc = "reported"
    /\ ImageCleaned(p, TRUE) /\ inv[p].overwrite
    /\ \A k \in RuleKeys : Flag(p, k)
    /\ InputTags(p) = ScenarioTags
    /\ inv[p].after = [t \in {Orientation} |-> "1"]
    /\ DOMAIN inv[p].removed = {GPSLatitude, Make, DateTimeOriginal}

\* C10: compare_metadata(before, after) has exactly the keys of before that
\* are absent from after or carry another value there, each with its before
\* value; keys only in after are not in it; it is empty when before = after
\* and is before when after is empty; before and after are not modified.
C10_CompareMetadata ==
  /\ [](\A p \in Procs :
          inv[p].pc = "compared" =>
            LET before == inv[p].before
                after == inv[p].after
                removed == inv[p].removed
            IN  /\ DOMAIN removed =
                     {k \in DOMAIN before :
                        k \notin DOMAIN after \/ after[k] # before[k]}
                /\ \A k \in DOMAIN removed : removed[k] = before[k]
                /\ \A k \in DOMAIN after \ DOMAIN before : k \notin DOMAIN removed
                /\ before = after => removed = EmptyMap
                /\ after = EmptyMap => removed = before)
  /\ [][\A p \in Procs :
          inv[p].pc = "compare" =>
            /\ inv'[p].before = inv[p].before
            /\ inv'[p].after = inv[p].after]_vars

\* one key changed its value, one is absent from after, one is only in after
C10_Witness ==
  \E p \in Procs :
    /\ inv[p].pc = "compared"
    /\ DOMAIN inv[p].before = {Make, Orientation}
    /\ DOMAIN inv[p].after = {Orientation, Software}
    /\ inv[p].before[Orientation] # inv[p].after[Orientation]
    /\ DOMAIN inv[p].removed = {Make, Orientation}

(* ---------------------------------------------------------------------- *)
(* Rule normalisation                                                      *)
(* ---------------------------------------------------------------------- *)

\* SpecRules: calls that pass None or a dictionary over any subset of the
\* seven keys; clean_file normalises the argument, the lossless cleaner
\* normalises what it is handed once more, and the next call follows
PartialRules ==
  {NoRules} \cup {Rules(d) : d \in UNION {[S -> BOOLEAN] : S \in SUBSET RuleKeys}}

InitRules ==
  /\ fs = EmptyMap
  /\ log = <<>>
  /\ defaults = DEFAULT_RULES
  /\ inv = NoInvocation

RulesCall ==
  /\ inv[Main].pc = "idle"
  /\ \E rules \in PartialRules :
       inv' = [inv EXCEPT ![Main] = [Idle EXCEPT !.pc = "rules", !.rules = rules]]
  /\ UNCHANGED <<fs, log, defaults>>

\* "rules = _normalize_rules(rules)" of clean_file: the local is rebound
NormalizeInCleanFile ==
  /\ inv[Main].pc = "rules"
  /\ inv' = [inv EXCEPT ![Main].pc = "normalized",
                        ![Main].nrules = _normalize_rules(inv[Main].rules)]
  /\ UNCHANGED <<fs, log, defaults>>

\* "rules = _normalize_rules(rules)" of clean_image_lossless and
\* clean_media_lossless, applied to the dictionary clean_file passes
NormalizeInCleaner ==
  /\ inv[Main].pc = "normalized"
  /\ inv' = [inv EXCEPT ![Main].pc = "renormalized",
                        ![Main].nrules = _normalize_rules(Rules(inv[Main].nrules))]
  /\ UNCHANGED <<fs, log, defaults>>

RulesReturn ==
  /\ inv[Main].pc = "renormalized"
  /\ inv' = [inv EXCEPT ![Main] = Idle]
  /\ UNCHANGED <<fs, log, defaults>>

NextRules ==
  \/ RulesCall
  \/ NormalizeInCleanFile
  \/ NormalizeInCleaner
  \/ RulesReturn

SpecRules == InitRules /\ [][NextRules]_vars

\* C11: for None and for every dictionary over a subset of the seven keys,
\* the rule set clean_file and the lossless cleaners work with has exactly
\* the seven keys, a supplied key with the caller's value and an omitted key
\* true; DEFAULT_RULES is all true after any sequence of calls, and the
\* caller's dictionary is the same after normalisation as before.
C11_RulesNormalized ==
  /\ [](/\ DOMAIN defaults = {"remove_gps", "remove_timestamps", "remove_camera",
                              "remove_xmp", "remove_iptc", "keep_icc",
                              "keep_orientation"}
        /\ \A k \in DOMAIN defaults : defaults[k] = TRUE
        /\ \A p \in Procs :
             inv[p].pc \in {"normalized", "renormalized"} =>
               /\ DOMAIN inv[p].nrules =
                    {"remove_gps", "remove_timestamps", "remove_camera",
                     "remove_xmp", "remove_iptc", "keep_icc", "keep_orientation"}
               /\ \A k \in DOMAIN inv[p].nrules : inv[p].nrules[k] = Flag(p, k))
  /\ [][\A p \in Procs :
          inv[p].pc \in {"rules", "normalized"} => inv'[p].rules = inv[p].rules]_vars

\* a two-key dictionary, both values false, has been normalised twice
C11_Witness ==
  \E p \in Procs :
    /\ inv[p].pc = "renormalized"
    /\ inv[p].rules.given
    /\ DOMAIN inv[p].rules.dict = {"remove_gps", "keep_icc"}
    /\ ~inv[p].rules.dict["remove_gps"] /\ ~inv[p].rules.dict["keep_icc"]
    /\ inv[p].nrules["remove_camera"] /\ ~inv[p].nrules["keep_icc"]

(* ---------------------------------------------------------------------- *)
(* Classification                                                          *)
(* ---------------------------------------------------------------------- *)

\* SpecClassify: get_file_type applied to the names "a" followed by up to
\* MaxNameTokens tokens (extensions in any letter case, the temp suffix,
\* "_cleaned"), and to hidden files whose whole name is a dot token
RECURSIVE TokenSeqs(_)
TokenSeqs(n) ==
  IF n = 0 THEN {<<>>}
  ELSE TokenSeqs(n - 1) \cup
       {Append(q, t) : q \in TokenSeqs(n - 1), t \in DotTokens \cup {"_cleaned"}}

ClassifyNames ==
  {<<"a">> \o q : q \in TokenSeqs(MaxNameTokens)} \cup {<<t>> : t \in DotTokens}

InitClassify ==
  /\ fs = EmptyMap
  /\ log = <<>>
  /\ defaults = DEFAULT_RULES
  /\ \E name \in ClassifyNames :
       inv = [NoInvocation EXCEPT ![Main] =
                [Idle EXCEPT !.pc = "classify", !.path = name]]

Classify ==
  /\ inv[Main].pc = "classify"
  /\ inv' = [inv EXCEPT ![Main].pc = "classified",
                        ![Main].file_type = get_file_type(inv[Main].path)]
  /\ UNCHANGED <<fs, log, defaults>>

NextClassify == Classify

SpecClassify == InitClassify /\ [][NextClassify]_vars

\* the class of one extension, every letter case listed
ClassOfExtension(tok) ==
  CASE tok \in {".jpg", ".JPG", ".Jpg", ".jpeg", ".JPEG", ".png", ".PNG",
                ".tiff", ".TIFF", ".tif", ".TIF"} -> "image"
    [] tok \in {".mp4", ".MP4", ".mov", ".MOV", ".avi", ".AVI", ".mkv", ".MKV",
                ".mp3", ".MP3", ".wav", ".WAV", ".flac", ".FLAC"} -> "media"
    [] tok \in {".pdf", ".PDF", ".Pdf"} -> "pdf"
    [] OTHER -> "other"

\* the name ends with an extension: its last token starts with a dot and is
\* not the whole name
EndsWithExtension(name) ==
  Len(name) > 1 /\ name[Len(name)] \in
    {".jpg", ".JPG", ".Jpg", ".jpeg", ".JPEG", ".png", ".PNG", ".tiff", ".TIFF",
     ".tif", ".TIF", ".mp4", ".MP4", ".mov", ".MOV", ".avi", ".AVI", ".mkv",
     ".MKV", ".mp3", ".MP3", ".wav", ".WAV", ".flac", ".FLAC", ".pdf", ".PDF",
     ".Pdf", ".txt", ".TXT", ".tmp_clean"}

\* C12: get_file_type returns one of the four classes for every name, and
\* the class is that of the name's last extension in any letter case:
\* image, media and pdf for the listed extensions, other for every other
\* extension and for a name without extension.
C12_ClassifyByLoweredExtension ==
  \A p \in Procs :
    inv[p].pc = "classified" =>
      /\ inv[p].file_type \in {"image", "media", "pdf", "other"}
      /\ inv[p].file_type =
           IF EndsWithExtension(inv[p].path)
           THEN ClassOfExtension(inv[p].path[Len(inv[p].path)])
           ELSE "other"

\* an upper-case extension after another extension
C12_Witness ==
  \E p \in Procs :
    /\ inv[p].pc = "classified"
    /\ inv[p].path = <<"a", ".pdf", ".JPG">>
    /\ inv[p].file_type = "image"

(* ---------------------------------------------------------------------- *)
(* Extraction failures                                                     *)
(* ---------------------------------------------------------------------- *)

\* a stored tag value whose bytes the decoder rejects when it is read
Undecodable == "undecodable"

BadTags(meta) == {t \in DOMAIN meta : meta[t] = Undecodable}

\* tag dictionaries with at most n entries, each value decodable or not
RawTagDicts(n) ==
  UNION {[S -> {"v", Undecodable}] :
           S \in {S \in SUBSET TagNames : Cardinality(S) <= n}}

\* what extract_image_metadata can return, as <<metadata, failed>>: metadata
\* is filled tag by tag inside the try and returned after the except, so a
\* failure at an undecodable tag leaves the tags stored before it; the order
\* of exif.items() is the order of the entries in the file
ImageExtractOutcomes(f, path) ==
  IF ~Readable(f, path, "image") THEN {<<EmptyMap, TRUE>>}
  ELSE IF BadTags(f[path].meta) = {} THEN {<<f[path].meta, FALSE>>}
  ELSE {<<Restrict(f[path].meta, S), TRUE>> :
          S \in SUBSET (DOMAIN f[path].meta \ BadTags(f[path].meta))}

\* what extract_pdf_metadata / extract_media_metadata can return: the
\* dictionary is built in one expression inside the try, the except
\* returns {}
WholeExtractOutcomes(f, path, cls) ==
  IF Readable(f, path, cls) /\ BadTags(f[path].meta) = {}
  THEN {<<f[path].meta, FALSE>>}
  ELSE {<<EmptyMap, TRUE>>}

ExtractPaths == {SrcImage, SrcPdf, SrcMedia, SrcOther}

\* SpecExtract: one file, readable with any tag dictionary or unreadable or
\* missing, and one call of extract_metadata on it
InitExtract ==
  /\ log = <<>>
  /\ defaults = DEFAULT_RULES
  /\ \E path \in ExtractPaths :
       /\ \/ fs = EmptyMap
          \/ fs = Put(EmptyMap, path, Junk)
          \/ \E meta \in RawTagDicts(MaxTags) :
               fs = Put(EmptyMap, path,
                        File(IF get_file_type(path) = "other" THEN "text"
                             ELSE get_file_type(path), meta, "data"))
       /\ inv = [NoInvocation EXCEPT ![Main] =
                   [Idle EXCEPT !.pc = "extract", !.path = path,
                                !.file_type = get_file_type(path),
                                !.fs0 = fs]]

\* the return of one extractor
Extracted(p, outcomes, kind) ==
  \E out \in outcomes :
    /\ inv' = [inv EXCEPT ![p].pc = "extracted", ![p].before = out[1]]
    /\ log' = IF out[2] THEN Log(log, kind, inv[p].path) ELSE log
    /\ UNCHANGED <<fs, defaults>>

extract_image_metadata(p) ==
  /\ inv[p].pc = "extract"
  /\ inv[p].file_type = "image"
  /\ Extracted(p, ImageExtractOutcomes(fs, inv[p].path),
               "Error extracting image metadata")

extract_pdf_metadata(p) ==
  /\ inv[p].pc = "extract"
  /\ inv[p].file_type = "pdf"
  /\ Extracted(p, WholeExtractOutcomes(fs, inv[p].path, "pdf"),
               "Error extracting PDF metadata")

extract_media_metadata(p) ==
  /\ inv[p].pc = "extract"
  /\ inv[p].file_type = "media"
  /\ Extracted(p, WholeExtractOutcomes(fs, inv[p].path, "media"),
               "Error extracting media metadata")

ExtractOther(p) ==
  /\ inv[p].pc = "extract"
  /\ inv[p].file_type \notin {"image", "pdf", "media"}
  /\ Extracted(p, {<<EmptyMap, FALSE>>}, "none")

NextExtract ==
  \/ extract_image_metadata(Main)
  \/ extract_pdf_metadata(Main)
  \/ extract_media_metadata(Main)
  \/ ExtractOther(Main)

SpecExtract == InitExtract /\ [][NextExtract]_vars

\* C13: when extract_metadata has returned, the inspected file system is
\* the one it was called on; a call for the unsupported class returned the
\* empty map; a call whose extraction failed (the failure is in the log)
\* returned the empty map.
C13_FailedExtractionIsEmpty ==
  \A p \in Procs :
    inv[p].pc = "extracted" =>
      /\ fs = inv[p].fs0
      /\ inv[p].file_type = "other" => inv[p].before = EmptyMap
      /\ log # <<>> => inv[p].before = EmptyMap

(* ---------------------------------------------------------------------- *)
(* Concurrent invocations                                                  *)
(* ---------------------------------------------------------------------- *)

\* SpecConc: two clean_file calls entered at the same time on different
\* images, among them a.jpg and the names its copy-mode outputs get.  Each
\* step of an invocation (the cleaner, the replace, the return) is atomic;
\* the steps of the two invocations interleave freely.
SrcCleaned == <<"a", "_cleaned", ".jpg">>
SrcCleanedLossless == <<"a", "_cleaned", "_lossless", ".jpg">>

ConcSources == {SrcImage, SrcCleaned, SrcCleanedLossless}

ConcFs ==
  [q \in ConcSources |->
     CASE q = SrcImage -> File("image", ScenarioTags, "pixels of a")
       [] q = SrcCleaned ->
            File("image", [t \in {Make} |-> TagValue(t)], "pixels of a_cleaned")
       [] OTHER ->
            File("image", [t \in {XResolution} |-> TagValue(t)],
                 "pixels of a_cleaned_lossless")]

InitConc ==
  /\ fs = ConcFs
  /\ log = <<>>
  /\ defaults = DEFAULT_RULES
  /\ \E path \in [Procs -> ConcSources], overwrite \in [Procs -> BOOLEAN],
        lossless \in [Procs -> BOOLEAN] :
       /\ \A p, q \in Procs : p # q => path[p] # path[q]
       /\ inv = [p \in Procs |->
                   [Idle EXCEPT !.pc = "entered", !.path = path[p],
                                !.overwrite = overwrite[p],
                                !.lossless = lossless[p],
                                !.file_type = get_file_type(path[p]),
                                !.fs0 = fs]]

NextConc ==
  \E p \in Procs :
    \/ clean_image_lossless(p)
    \/ clean_image_full(p)
    \/ ReplaceOk(p)
    \/ ReplaceFail(p)
    \/ ReturnDst(p)

SpecConc == InitConc /\ [][NextConc]_vars

\* the content a successful clean of content c leaves in its output when
\* the call runs alone with the default rules
AloneOutput(c, lossless) ==
  [cls |-> c.cls, valid |-> TRUE, body |-> c.body,
   meta |-> IF lossless
            THEN Restrict(c.meta, {XResolution, Orientation, ICCProfile})
            ELSE EmptyMap]

\* C14: with two invocations on different sources, an invocation whose
\* cleaner has written its output did not write to the other's source or
\* output path, and an invocation that returned success left what it leaves
\* when run alone: in copy mode the source as it was and the cleaned copy of
\* it beside it, in overwrite mode the cleaned content at the source.
C14_NoInterference ==
  \A p \in Procs : \A q \in Procs \ {p} :
    /\ inv[p].pc \in {"cleaned", "returned"} /\ inv[p].ok =>
         /\ inv[p].dst # inv[q].path
         /\ inv[p].dst # (IF inv[q].overwrite
                           THEN TempName(inv[q].path, inv[q].lossless)
                           ELSE Sibling(inv[q].path, inv[q].lossless))
    /\ inv[p].pc = "returned" /\ inv[p].result.success =>
         /\ Exists(fs, inv[p].result.outputPath)
         /\ fs[inv[p].result.outputPath] =
              AloneOutput(inv[p].fs0[inv[p].path], inv[p].lossless)
         /\ ~inv[p].overwrite => fs[inv[p].path] = inv[p].fs0[inv[p].path]

(* ---------------------------------------------------------------------- *)
(* The always-keep set of the lossless image cleaner                       *)
(* ---------------------------------------------------------------------- *)

\* the always-keep set in effect for the call
KeptTags(p) ==
  {<<"XResolution">>, <<"YResolution">>, <<"ResolutionUnit">>}
    \cup (IF Flag(p, "keep_orientation") THEN {<<"Orientation">>} ELSE {})
    \cup (IF Flag(p, "keep_icc") THEN {<<"ICCProfile">>} ELSE {})

\* C15: after a successful lossless image clean, for every input tag
\* dictionary and every rule set, every output tag is in the always-keep
\* set (the resolution tags, Orientation iff keepOrientation, ICCProfile iff
\* keepIccProfile) and every input tag of that set is in the output with its
\* value; the five remove flags do not enter.
C15_OnlyAlwaysKeepSurvives ==
  \A p \in Procs :
    ImageCleaned(p, TRUE) =>
      /\ DOMAIN OutputTags(p) \subseteq KeptTags(p)
      /\ \A t \in DOMAIN InputTags(p) \cap KeptTags(p) :
           t \in DOMAIN OutputTags(p) /\ OutputTags(p)[t] = InputTags(p)[t]

\* every remove flag false, a kept tag and a tag of no category went in,
\* only the kept tag came out
C15_Witness ==
  \E p \in Procs :
    /\ ImageCleaned(p, TRUE)
    /\ \A k \in {"remove_gps", "remove_timestamps", "remove_camera",
                 "remove_xmp", "remove_iptc"} : ~Flag(p, k)
    /\ DOMAIN InputTags(p) = {XResolution, Software}
    /\ DOMAIN OutputTags(p) = {XResolution}

(* ---------------------------------------------------------------------- *)
(* The media cleaners                                                      *)
(* ---------------------------------------------------------------------- *)

\* a media cleaner has run for the call: the source is a media name that
\* existed at the call, and the dispatch is behind
MediaRan(p) ==
  /\ inv[p].pc \in {"cleaned", "returned", "reported", "raised"}
  /\ ExtClass(inv[p].path) = "media"
  /\ inv[p].path \in DOMAIN inv[p].fs0

\* the directives of the categories whose flag is in effect, in the order
\* GPS, timestamps, camera, XMP, IPTC
ExpectedDirectives(p) ==
  (IF Flag(p, "remove_gps") THEN <<"-GPS*=">> ELSE <<>>)
    \o (IF Flag(p, "remove_timestamps") THEN <<"-AllDates=">> ELSE <<>>)
    \o (IF Flag(p, "remove_camera") THEN <<"-Make=", "-Model=", "-Lens*=">> ELSE <<>>)
    \o (IF Flag(p, "remove_xmp") THEN <<"-XMP:all=">> ELSE <<>>)
    \o (IF Flag(p, "remove_iptc") THEN <<"-IPTC:all=">> ELSE <<>>)

\* C16: the command a media cleaner runs is fixed by mode and rules: in
\* lossless mode its options are -P followed by the directives of exactly
\* the categories whose remove flag is true, in the order GPS, timestamps,
\* camera, XMP, IPTC; in full mode the single option -all= whatever the
\* rules; in both modes -o names the computed output path (sibling or temp
\* name), the input is the source, and the output is never the source.
C16_MediaCommand ==
  \A p \in Procs :
    MediaRan(p) =>
      /\ inv[p].cmd.opts = IF inv[p].lossless
                           THEN <<"-P">> \o ExpectedDirectives(p)
                           ELSE <<"-all=">>
      /\ inv[p].cmd.o = IF inv[p].overwrite
                        THEN TempName(inv[p].path, inv[p].lossless)
                        ELSE Sibling(inv[p].path, inv[p].lossless)
      /\ inv[p].cmd.file = inv[p].path
      /\ inv[p].cmd.o # inv[p].path

\* lossless with only the camera and IPTC categories enabled
C16_Witness ==
  \E p \in Procs :
    /\ MediaRan(p) /\ inv[p].lossless
    /\ Flag(p, "remove_camera") /\ Flag(p, "remove_iptc")
    /\ ~Flag(p, "remove_gps") /\ ~Flag(p, "remove_timestamps") /\ ~Flag(p, "remove_xmp")
    /\ inv[p].cmd.opts = <<"-P", "-Make=", "-Model=", "-Lens*=", "-IPTC:all=">>

\* success is exit code 0 of a tool that ran, and in overwrite mode a failed
\* clean leaves the source in place
SuccessIsExitZero(p) ==
  /\ inv[p].ok = (inv[p].tool.launched /\ inv[p].tool.returncode = 0)
  /\ Returned(p) => inv[p].result.success = inv[p].ok
  /\ ~inv[p].ok /\ inv[p].overwrite => Same(fs, inv[p].fs0, inv[p].path)

\* C17 as stated: a media clean succeeds iff the tool exits with code 0;
\* for any other exit code or a failed launch the result is success=false
\* with the tool's stderr as the message, and in overwrite mode the source
\* is not replaced.
C17_FailureCarriesStderr ==
  \A p \in Procs :
    MediaRan(p) =>
      /\ SuccessIsExitZero(p)
      /\ ~inv[p].ok => inv[p].msg = inv[p].tool.stderr

\* C17 amended: a media clean succeeds iff the tool was launched and exits
\* with code 0; otherwise the result is success=false and the message is
\* the tool's stderr when the tool ran and wrote any, the fixed text
\* "ExifTool error" when it ran and stderr is empty, and the text of the
\* launch exception when the tool could not be started; in overwrite mode
\* the source is not replaced.
C17_FailureMessage ==
  \A p \in Procs :
    MediaRan(p) =>
      /\ SuccessIsExitZero(p)
      /\ ~inv[p].ok =>
           /\ inv[p].msg = IF ~inv[p].tool.launched THEN "cannot launch tool"
                           ELSE IF inv[p].tool.stderr = "" THEN "ExifTool error"
                           ELSE inv[p].tool.stderr
           /\ Returned(p) => inv[p].result.message = inv[p].msg

\* overwrite mode, the tool exited with a non-zero code and an empty stderr,
\* clean_file has returned the fallback text
C17_Witness ==
  \E p \in Procs :
    /\ MediaRan(p) /\ Returned(p) /\ inv[p].overwrite
    /\ inv[p].tool.launched /\ inv[p].tool.returncode = 2
    /\ inv[p].tool.stderr = ""
    /\ ~inv[p].result.success
    /\ inv[p].result.message = "ExifTool error"

(* ---------------------------------------------------------------------- *)
(* The PDF cleaners                                                        *)
(* ---------------------------------------------------------------------- *)

\* SpecPdf: one invocation on the PDF, in every mode and with every rule
\* set, for every document-info dictionary over DocInfoKeys and either body
DocInfoKeys == {<<"Title">>, <<"Author">>, <<"Producer">>}

PdfInputs ==
  {File("pdf", [k \in S |-> "v"], body) :
     S \in SUBSET DocInfoKeys, body \in {"pages", "other pages"}}

InitPdf ==
  /\ \E pdf \in PdfInputs : fs = Put(EmptyMap, SrcPdf, pdf)
  /\ inv = NoInvocation
  /\ log = <<>>
  /\ defaults = DEFAULT_RULES

CallPdf == CallerExtractBefore(Main, {SrcPdf}, CallerRules)

NextPdf ==
  \/ CallPdf
  \/ clean_pdf_lossless(Main)
  \/ clean_pdf_full(Main)
  \/ ReplaceOk(Main)
  \/ ReplaceFail(Main)
  \/ ReturnDst(Main)
  \/ CallerReport(Main)

SpecPdf == InitPdf /\ [][NextPdf]_vars

PdfCleaned(p) ==
  /\ Returned(p) /\ inv[p].result.success
  /\ ExtClass(inv[p].path) = "pdf"

\* C18: after a successful clean of a PDF, lossless or full, for every
\* input document-info dictionary and every rule set, the output is a PDF
\* with an empty document-info dictionary and the body of the input; mode
\* and rules show only in the message and in the output's name.
C18_PdfModesEquivalent ==
  \A p \in Procs :
    PdfCleaned(p) =>
      /\ fs[inv[p].result.outputPath] =
           [cls |-> "pdf", valid |-> TRUE, meta |-> EmptyMap,
            body |-> inv[p].fs0[inv[p].path].body]
      /\ inv[p].result.message = IF inv[p].lossless
                                 THEN "Lossless PDF metadata removed"
                                 ELSE "PDF metadata removed"
      /\ inv[p].result.outputPath =
           IF inv[p].overwrite THEN inv[p].path
           ELSE Sibling(inv[p].path, inv[p].lossless)

\* a lossless clean with every flag false of a PDF that carries Title and
\* Author
C18_Witness ==
  \E p \in Procs :
    /\ PdfCleaned(p) /\ inv[p].lossless
    /\ \A k \in RuleKeys : ~Flag(p, k)
    /\ DOMAIN inv[p].fs0[inv[p].path].meta = {<<"Title">>, <<"Author">>}
    /\ DOMAIN fs[inv[p].result.outputPath].meta = {}

====
